---- MODULE Spec2Model ----
(***************************************************************************)
(* pdecrypt (src/src/main.rs): the `decrypt` command as a state machine    *)
(* (specification Spec) and the `init` command with its two argument       *)
(* parsers (specification InitSpec).                                       *)
(*                                                                         *)
(* Text is modelled as a sequence of one-character strings; a password of  *)
(* the loaded list in `decrypt` is an opaque token, since the PDF codec    *)
(* only ever compares it with the passwords a document accepts.            *)
(***************************************************************************)
EXTENDS Integers, Sequences, FiniteSets, TLC

VARIABLES
    \* ---- decrypt ----
    pc,          \* position inside decrypt::decrypt
    verbose,     \* cli.verbose
    pwFile,      \* what is at args.pw_list_file(): "missing", "unparsable", "ok"
    pw_list,     \* the loaded PasswordList.pw_list
    outArg,      \* args.output_dir: "explicit" (Some) or "none" (None)
    outExisted,  \* the output path existed when the command started
    outOnDisk,   \* the output path exists now
    outCreated,  \* fs::create_dir(&output_dir) succeeded in this run
    entries,     \* what fs::read_dir(input_dir) yields
    files,       \* the result of pdf_files(&input_dir)
    idx,         \* position of the map closure in files (1-based)
    opensCur,    \* the passwords QPdf::read_encrypted accepts for files[idx]
    cand,        \* position of Iterator::find in pw_list (1-based)
    matched,     \* index found by find for files[idx], 0 if none
    calls,       \* indices passed to QPdf::read_encrypted for files[idx], in call order
    opened,      \* names on which QPdf::read_encrypted was ever called
    attempts,    \* names handed to try_decrypt_from_password_list, in call order
    written,     \* base names written under output_dir
    errors,      \* the Err side of partition_result
    stdout,      \* the lines printed by println!
    ret,         \* result of decrypt: "none" (running), "ok", "err"
    \* ---- init ----
    ipc,         \* position inside the init command
    argDob,      \* the date-of-birth argument, [d, m, y] as written by the user
    argId,       \* the national-id argument as written by the user
    dob,         \* InitArgs.dob
    thai_citizen_id, \* InitArgs.thai_citizen_id
    init_pw_list,    \* PasswordList.pw_list built by init
    cfgDir,      \* ~/.pdecrypt/ exists
    cfgFile,     \* content of ~/.pdecrypt/pw_list.toml, <<>> if never written
    dobResult,   \* outcome of dob::parse_naive_date: "none", "ok", "err"
    idResult,    \* outcome of parse_thai_citizen_id: "none", "ok", "err"
    iret         \* result of the init command: "none", "ok", "err"

dvars == <<pc, verbose, pwFile, pw_list, outArg, outExisted, outOnDisk, outCreated,
           entries, files, idx, opensCur, cand, matched, calls, opened, attempts,
           written, errors, stdout, ret>>
ivars == <<ipc, argDob, argId, dob, thai_citizen_id, init_pw_list, cfgDir, cfgFile,
           dobResult, idResult, iret>>
vars == <<dvars, ivars>>

\* ------------------------------------------------------------------ bounds
MaxPwLen == 3
Passwords == {"p1", "p2"}

\* ------------------------------------------------------------------ text helpers
Range(s) == {s[i] : i \in 1..Len(s)}

\* u8::to_ascii_lowercase on the letters used by the modelled names
LowerChar(c) ==
    CASE c = "P" -> "p"
      [] c = "D" -> "d"
      [] c = "F" -> "f"
      [] c = "X" -> "x"
      [] OTHER -> c

to_ascii_lowercase(s) == [i \in 1..Len(s) |-> LowerChar(s[i])]

\* position of the last '.' in a file name, 0 if there is none
LastDot(name) ==
    LET dots == {i \in 1..Len(name) : name[i] = "."}
    IN IF dots = {} THEN 0 ELSE CHOOSE i \in dots : \A j \in dots : j <= i

\* std::path::Path::extension: None (here <<"none">>) when the name has no '.',
\* or when its only '.' is the leading one; otherwise the text after the last '.'
NoExt == <<"<none>">>
extension(name) ==
    LET d == LastDot(name)
    IN IF d <= 1 THEN NoExt ELSE SubSeq(name, d + 1, Len(name))

\* ------------------------------------------------------------------ directory listings
File(name) == [name |-> name, kind |-> "file"]
Dir(name)  == [name |-> name, kind |-> "dir"]

a_pdf     == <<"a", ".", "p", "d", "f">>
b_PDF     == <<"b", ".", "P", "D", "F">>
c_Pdf     == <<"c", ".", "P", "d", "f">>
n_txt     == <<"n", ".", "t", "x", "t">>
x_PDFX    == <<"x", ".", "P", "D", "F", "X">>
sub       == <<"s", "u", "b">>
scans_pdf == <<"s", "c", ".", "p", "d", "f">>
dot_pdf   == <<".", "p", "d", "f">>
t_pdf_bak == <<"t", ".", "p", "d", "f", ".", "b", "a", "k">>

\* the input directories the model is run on (order: what read_dir yields)
Directories ==
    { <<File(a_pdf), File(b_PDF), File(c_Pdf)>>,
      <<File(a_pdf), File(n_txt), File(x_PDFX), Dir(sub)>>,
      <<Dir(scans_pdf), File(b_PDF), File(dot_pdf), File(t_pdf_bak)>>,
      <<>> }

\* decrypt::pdf_files, the filter of lines 186-190 applied to the listing in order
RECURSIVE pdf_files(_)
pdf_files(listing) ==
    IF listing = <<>> THEN <<>>
    ELSE LET e == Head(listing)
             rest == pdf_files(Tail(listing))
         IN IF to_ascii_lowercase(extension(e.name)) = <<"p", "d", "f">>
            THEN <<e>> \o rest
            ELSE rest

\* all candidate lists of length 0..MaxPwLen (duplicates allowed)
PwLists == UNION {[1..n -> Passwords] : n \in 0..MaxPwLen}

\* QPdf::read_encrypted(path, pw).is_ok(): the codec as a function of (file, password)
read_encrypted_ok(accepts, pw) == pw \in accepts

\* println!, only when verbose
Println(out, line) == IF verbose THEN Append(out, line) ELSE out
Line(k, v) == [k |-> k, v |-> v]

PrintAll(out, lines) == IF verbose THEN out \o lines ELSE out
NoText == <<>>

\* ------------------------------------------------------------------ decrypt
\* the init command's variables, untouched by decrypt
InitIdle ==
    /\ ipc = "idle"
    /\ argDob = [d |-> 1, m |-> 1, y |-> 2000]
    /\ argId = <<>>
    /\ dob = [d |-> 1, m |-> 1, y |-> 2000]
    /\ thai_citizen_id = <<>>
    /\ init_pw_list = <<>>
    /\ cfgDir = FALSE
    /\ cfgFile = <<>>
    /\ dobResult = "none"
    /\ idResult = "none"
    /\ iret = "none"

\* the state when `pdecrypt decrypt` starts: the flags and the file system are the
\* environment's
DecryptInit ==
    /\ pc = "read_pw"
    /\ verbose \in BOOLEAN
    /\ pwFile \in {"missing", "unparsable", "ok"}
    /\ pw_list = <<>>
    /\ outArg \in {"explicit", "none"}
    /\ outExisted \in BOOLEAN
    /\ outOnDisk = outExisted
    /\ outCreated = FALSE
    /\ entries = <<>>
    /\ files = <<>>
    /\ idx = 0
    /\ opensCur = {}
    /\ cand = 0
    /\ matched = 0
    /\ calls = <<>>
    /\ opened = {}
    /\ attempts = <<>>
    /\ written = {}
    /\ errors = <<>>
    /\ stdout = <<>>
    /\ ret = "none"
    /\ InitIdle

\* `?` on a fatal error: decrypt returns Err, main exits non-zero
Fatal ==
    /\ ret' = "err"
    /\ pc' = "exit"

\* lines 91-93: read and parse the password list file
ReadPwList ==
    /\ pc = "read_pw"
    /\ \/ /\ pwFile # "ok"
          /\ Fatal
          /\ UNCHANGED pw_list
       \/ /\ pwFile = "ok"
          /\ \E l \in PwLists : pw_list' = l
          /\ pc' = "input_dir"
          /\ UNCHANGED ret
    /\ UNCHANGED <<verbose, pwFile, outArg, outExisted, outOnDisk, outCreated, entries,
                   files, idx, opensCur, cand, matched, calls, opened, attempts,
                   written, errors, stdout>>
    /\ UNCHANGED ivars

\* lines 95-102: args.input_dir, or the current directory
ResolveInputDir ==
    /\ pc = "input_dir"
    /\ \/ /\ Fatal                      \* env::current_dir()? failed
          /\ UNCHANGED stdout
       \/ /\ stdout' = Println(stdout, Line("input_dir", NoText))
          /\ pc' = "output_dir"
          /\ UNCHANGED ret
    /\ UNCHANGED <<verbose, pwFile, pw_list, outArg, outExisted, outOnDisk, outCreated,
                   entries, files, idx, opensCur, cand, matched, calls, opened,
                   attempts, written, errors>>
    /\ UNCHANGED ivars

\* lines 148-180: derive the sibling path, refuse an existing one, create it
create_output_dir ==
    \/ /\ outOnDisk                     \* line 164
       /\ Fatal
       /\ UNCHANGED <<outOnDisk, outCreated, stdout>>
    \/ /\ ~outOnDisk
       /\ \/ /\ Fatal                   \* fs::create_dir(&output_dir)? failed
             /\ stdout' = Println(stdout, Line("creating_output_dir", NoText))
             /\ UNCHANGED <<outOnDisk, outCreated>>
          \/ /\ outOnDisk' = TRUE
             /\ outCreated' = TRUE
             /\ stdout' = PrintAll(stdout, <<Line("creating_output_dir", NoText),
                                             Line("output_dir", NoText)>>)
             /\ pc' = "list"
             /\ UNCHANGED ret

\* lines 104-111: args.output_dir as given, or create_output_dir
ResolveOutputDir ==
    /\ pc = "output_dir"
    /\ \/ /\ outArg = "explicit"        \* Some(dir) => dir
          /\ stdout' = Println(stdout, Line("output_dir", NoText))
          /\ pc' = "list"
          /\ UNCHANGED <<ret, outOnDisk, outCreated>>
       \/ /\ outArg = "none"
          /\ create_output_dir
    /\ UNCHANGED <<verbose, pwFile, pw_list, outArg, outExisted, entries, files, idx,
                   opensCur, cand, matched, calls, opened, attempts, written, errors>>
    /\ UNCHANGED ivars

\* line 113 with pdf_files (182-194): list the input directory
ListPdfFiles ==
    /\ pc = "list"
    /\ \/ /\ Fatal                      \* fs::read_dir(dir)? failed
          /\ UNCHANGED <<entries, files, idx>>
       \/ /\ \E listing \in Directories :
                /\ entries' = listing
                /\ files' = pdf_files(listing)
          /\ idx' = 1
          /\ pc' = IF files' = <<>> THEN "report" ELSE "try"
          /\ UNCHANGED ret
    /\ UNCHANGED <<verbose, pwFile, pw_list, outArg, outExisted, outOnDisk, outCreated,
                   opensCur, cand, matched, calls, opened, attempts, written, errors,
                   stdout>>
    /\ UNCHANGED ivars

\* the map closure is done with files[idx]: on to the next file, or to the report
Advance ==
    /\ idx' = idx + 1
    /\ pc' = IF idx + 1 > Len(files) THEN "report" ELSE "try"

\* RecordError with the first Err ending the iteration (as collecting into a
\* Result would): the files after files[idx] are skipped
RecordError_abort(reason) ==
    /\ errors' = Append(errors, [file |-> files[idx].name, reason |-> reason])
    /\ idx' = idx + 1
    /\ pc' = "report"

\* the closure returned Err(reason) for files[idx]: partition_result keeps it
RecordError(reason) ==
    /\ errors' = Append(errors, [file |-> files[idx].name, reason |-> reason])
    /\ Advance

\* lines 116, 196-203: try_decrypt_from_password_list is entered for files[idx];
\* which passwords the document accepts is a fact of the file (none for a directory)
BeginTry ==
    /\ pc = "try"
    /\ \E acc \in SUBSET Passwords :
          /\ (files[idx].kind = "dir" => acc = {})
          /\ opensCur' = acc
    /\ attempts' = Append(attempts, files[idx].name)
    /\ stdout' = Println(stdout, Line("trying", files[idx].name))
    /\ cand' = 1
    /\ matched' = 0
    /\ calls' = <<>>
    /\ pc' = "find"
    /\ UNCHANGED <<verbose, pwFile, pw_list, outArg, outExisted, outOnDisk, outCreated,
                   entries, files, idx, opened, written, errors, ret>>
    /\ UNCHANGED ivars

\* FindStep with the search not stopping at the first match: every candidate is
\* tried and the last one that opens the file is kept
FindStep_last ==
    /\ pc = "find"
    /\ \/ /\ cand > Len(pw_list)
          /\ IF matched = 0
             THEN RecordError("no_password")
             ELSE /\ pc' = "reopen"
                  /\ UNCHANGED <<errors, idx>>
          /\ UNCHANGED <<cand, matched, calls, opened>>
       \/ /\ cand <= Len(pw_list)
          /\ calls' = Append(calls, cand)
          /\ opened' = opened \cup {files[idx].name}
          /\ matched' = IF read_encrypted_ok(opensCur, pw_list[cand]) THEN cand ELSE matched
          /\ cand' = cand + 1
          /\ UNCHANGED <<errors, idx, pc>>
    /\ UNCHANGED <<verbose, pwFile, pw_list, outArg, outExisted, outOnDisk, outCreated,
                   entries, files, opensCur, attempts, written, stdout, ret>>
    /\ UNCHANGED ivars

\* lines 205-209: one step of password_list.iter().find(..), or its None
FindStep ==
    /\ pc = "find"
    /\ \/ /\ cand > Len(pw_list)        \* find returned None: line 208
          /\ RecordError("no_password")
          /\ UNCHANGED <<cand, matched, calls, opened>>
       \/ /\ cand <= Len(pw_list)
          /\ calls' = Append(calls, cand)
          /\ opened' = opened \cup {files[idx].name}
          /\ IF read_encrypted_ok(opensCur, pw_list[cand])
             THEN /\ matched' = cand
                  /\ pc' = "reopen"
                  /\ UNCHANGED cand
             ELSE /\ cand' = cand + 1
                  /\ UNCHANGED <<matched, pc>>
          /\ UNCHANGED <<errors, idx>>
    /\ UNCHANGED <<verbose, pwFile, pw_list, outArg, outExisted, outOnDisk, outCreated,
                   entries, files, opensCur, attempts, written, stdout, ret>>
    /\ UNCHANGED ivars

\* lines 211-215: report the password found and open the document with it again
Reopen ==
    /\ pc = "reopen"
    /\ stdout' = Println(stdout, Line("password", <<pw_list[matched]>>))
    /\ calls' = Append(calls, matched)
    /\ opened' = opened \cup {files[idx].name}
    /\ IF read_encrypted_ok(opensCur, pw_list[matched])
       THEN /\ pc' = "write"
            /\ UNCHANGED <<errors, idx>>
       ELSE RecordError("open_failed")
    /\ UNCHANGED <<verbose, pwFile, pw_list, outArg, outExisted, outOnDisk, outCreated,
                   entries, files, opensCur, cand, matched, attempts, written, ret>>
    /\ UNCHANGED ivars

\* lines 118-126: write the copy to output_dir/<file name>; the write cannot
\* succeed when output_dir does not exist
WriteFile ==
    /\ pc = "write"
    /\ stdout' = Println(stdout, Line("writing", files[idx].name))
    /\ \/ /\ outOnDisk
          /\ written' = written \cup {files[idx].name}
          /\ Advance
          /\ UNCHANGED errors
       \/ /\ RecordError("write_failed")
          /\ UNCHANGED written
    /\ UNCHANGED <<verbose, pwFile, pw_list, outArg, outExisted, outOnDisk, outCreated,
                   entries, files, opensCur, cand, matched, calls, opened, attempts,
                   ret>>
    /\ UNCHANGED ivars

\* lines 130-145: print the errors (under verbose only), return Ok(())
Report ==
    /\ pc = "report"
    /\ stdout' = PrintAll(stdout,
                    (IF errors # <<>>
                     THEN <<Line("failed_header", NoText)>>
                          \o [i \in 1..Len(errors) |-> Line("error", errors[i].file)]
                     ELSE <<>>)
                    \o <<Line("done", NoText)>>)
    /\ ret' = "ok"
    /\ pc' = "exit"
    /\ UNCHANGED <<verbose, pwFile, pw_list, outArg, outExisted, outOnDisk, outCreated,
                   entries, files, idx, opensCur, cand, matched, calls, opened,
                   attempts, written, errors>>
    /\ UNCHANGED ivars

DecryptNext ==
    \/ ReadPwList
    \/ ResolveInputDir
    \/ ResolveOutputDir
    \/ ListPdfFiles
    \/ BeginTry
    \/ FindStep
    \/ Reopen
    \/ WriteFile
    \/ Report

Spec == DecryptInit /\ [][DecryptNext]_vars

\* ------------------------------------------------------------------ init: dates
FirstYear == 1999
YearSpan == 2
Years == FirstYear..(FirstYear + YearSpan - 1)

\* the Gregorian leap-year rule of chrono / chronoutil::is_leap_year
is_leap_year(y) == (y % 4 = 0) /\ ((y % 100 # 0) \/ (y % 400 = 0))

DaysInMonth(y, m) ==
    IF m = 2 THEN (IF is_leap_year(y) THEN 29 ELSE 28)
    ELSE IF m \in {4, 6, 9, 11} THEN 30 ELSE 31

\* the day/month/year texts a user may type, as the numbers they spell
DateInputs == [d : 0..32, m : 0..13, y : Years]

\* dob::parse_naive_date (289-291): NaiveDate::parse_from_str(s, "%d/%m/%Y") accepts
\* exactly the real calendar dates
parse_naive_date(a) ==
    /\ a.m \in 1..12
    /\ a.d \in 1..DaysInMonth(a.y, a.m)

\* chronoutil::delta::normalise_day
normalise_day(y, m, d) ==
    IF d <= 28 THEN d
    ELSE IF m = 2 THEN (IF is_leap_year(y) THEN 29 ELSE 28)
    ELSE IF d = 31 /\ m \in {4, 6, 9, 11} THEN 30
    ELSE d

\* chronoutil::delta::shift_months
shift_months(date, months) ==
    LET y0 == date.y + ((date.m + months) \div 12)
        m0 == (date.m + months) % 12
        y1 == IF m0 < 1 THEN y0 - 1 ELSE y0
        m1 == IF m0 < 1 THEN m0 + 12 ELSE m0
    IN [d |-> normalise_day(y1, m1, date.d), m |-> m1, y |-> y1]

\* RelativeDuration::years(n) is n * 12 months
EraShiftYears == 543
add_years(date, n) == shift_months(date, n * 12)

\* dobs with the date as given rendered first
dobs_given_first(date) == <<date, add_years(date, EraShiftYears)>>

\* line 294: the two dates that are rendered, in the order they are rendered
dobs(date) == <<add_years(date, EraShiftYears), date>>

\* ------------------------------------------------------------------ init: formatting
Digits == <<"0", "1", "2", "3", "4", "5", "6", "7", "8", "9">>
DigitChar(n) == Digits[n + 1]
Pad2(n) == <<DigitChar((n \div 10) % 10), DigitChar(n % 10)>>
Pad4(n) == <<DigitChar((n \div 1000) % 10), DigitChar((n \div 100) % 10),
             DigitChar((n \div 10) % 10), DigitChar(n % 10)>>

\* chrono's %b
MonthAbbr ==
    << <<"J", "a", "n">>, <<"F", "e", "b">>, <<"M", "a", "r">>, <<"A", "p", "r">>,
       <<"M", "a", "y">>, <<"J", "u", "n">>, <<"J", "u", "l">>, <<"A", "u", "g">>,
       <<"S", "e", "p">>, <<"O", "c", "t">>, <<"N", "o", "v">>, <<"D", "e", "c">> >>

\* lines 296-301
formats == <<"%d%m%Y", "%d%m%y", "%d%b%Y", "%d%b%y">>

\* NaiveDate::format(fmt).to_string() for the four formats (years 0..9999)
format(date, fmt) ==
    CASE fmt = "%d%m%Y" -> Pad2(date.d) \o Pad2(date.m) \o Pad4(date.y)
      [] fmt = "%d%m%y" -> Pad2(date.d) \o Pad2(date.m) \o Pad2(date.y % 100)
      [] fmt = "%d%b%Y" -> Pad2(date.d) \o MonthAbbr[date.m] \o Pad4(date.y)
      [] fmt = "%d%b%y" -> Pad2(date.d) \o MonthAbbr[date.m] \o Pad2(date.y % 100)

\* lines 293-310: flat_map over dobs, then over formats
generate_formats(date) ==
    LET ds == dobs(date)
        nf == Len(formats)
    IN [i \in 1..(Len(ds) * nf) |-> format(ds[((i - 1) \div nf) + 1], formats[((i - 1) % nf) + 1])]

\* BuildPwList without the national id in front
BuildPwList_noid(id, date) == generate_formats(date)

\* lines 244-248: once(id).chain(generate_formats(dob)).collect_vec()
BuildPwList(id, date) == <<id>> \o generate_formats(date)

\* ------------------------------------------------------------------ init: national id
IdLen == 13
MaxIdLen == 14

\* "TH1" stands for the Thai digit one (U+0E51), three bytes in UTF-8
Utf8Len(c) == IF c = "TH1" THEN 3 ELSE 1

\* str::len: the length in bytes
RECURSIVE str_len(_)
str_len(s) == IF s = <<>> THEN 0 ELSE Utf8Len(Head(s)) + str_len(Tail(s))

is_ascii_digit(c) == c \in Range(Digits)

\* parse_thai_citizen_id without the digit check of lines 319-321
parse_thai_citizen_id_lenonly(s) ==
    IF str_len(s) # IdLen THEN "err" ELSE "ok"

\* lines 314-324
parse_thai_citizen_id(s) ==
    IF str_len(s) # IdLen THEN "err"
    ELSE IF ~(\A i \in 1..Len(s) : is_ascii_digit(s[i])) THEN "err"
    ELSE "ok"

\* the id texts a user may type: digits, with at most one other character somewhere
IdInputs ==
    {<<>>} \cup
    UNION { { [i \in 1..n |-> IF i = p THEN c ELSE "1"] : p \in 1..n, c \in {"a", "TH1"} }
            \cup { [i \in 1..n |-> d] : d \in {"1", "9"} }
            \cup { [i \in 1..n |-> Digits[(i % 10) + 1]] } :
            n \in (IdLen - 2)..MaxIdLen }

\* ------------------------------------------------------------------ init
DecryptIdle ==
    /\ pc = "idle"
    /\ pwFile = "ok"
    /\ pw_list = <<>>
    /\ outArg = "none"
    /\ outExisted = FALSE
    /\ outOnDisk = FALSE
    /\ outCreated = FALSE
    /\ entries = <<>>
    /\ files = <<>>
    /\ idx = 0
    /\ opensCur = {}
    /\ cand = 0
    /\ matched = 0
    /\ calls = <<>>
    /\ opened = {}
    /\ attempts = <<>>
    /\ written = {}
    /\ errors = <<>>
    /\ ret = "none"

InitInit ==
    /\ ipc = "parse_dob"
    /\ verbose \in BOOLEAN
    /\ stdout = <<>>
    /\ argDob = [d |-> 0, m |-> 0, y |-> FirstYear]
    /\ argId = <<>>
    /\ dob = [d |-> 0, m |-> 0, y |-> FirstYear]
    /\ thai_citizen_id = <<>>
    /\ init_pw_list = <<>>
    /\ cfgDir \in BOOLEAN
    /\ cfgFile = <<>>
    /\ dobResult = "none"
    /\ idResult = "none"
    /\ iret = "none"
    /\ DecryptIdle

\* line 236: clap runs dob::parse_naive_date on the first argument
ParseDob ==
    /\ ipc = "parse_dob"
    /\ \E a \in DateInputs :
          /\ argDob' = a
          /\ IF parse_naive_date(a)
             THEN /\ dob' = a
                  /\ dobResult' = "ok"
                  /\ ipc' = "parse_id"
                  /\ UNCHANGED iret
             ELSE /\ dobResult' = "err"
                  /\ iret' = "err"
                  /\ ipc' = "exit"
                  /\ UNCHANGED dob
    /\ UNCHANGED <<argId, thai_citizen_id, init_pw_list, cfgDir, cfgFile, idResult>>
    /\ UNCHANGED dvars

\* line 239: clap runs parse_thai_citizen_id on the second argument
ParseId ==
    /\ ipc = "parse_id"
    /\ \E s \in IdInputs :
          /\ argId' = s
          /\ idResult' = parse_thai_citizen_id(s)
          /\ IF parse_thai_citizen_id(s) = "ok"
             THEN /\ thai_citizen_id' = s        \* Ok(s.to_string())
                  /\ ipc' = "init"
                  /\ UNCHANGED iret
             ELSE /\ iret' = "err"
                  /\ ipc' = "exit"
                  /\ UNCHANGED thai_citizen_id
    /\ UNCHANGED <<argDob, dob, init_pw_list, cfgDir, cfgFile, dobResult>>
    /\ UNCHANGED dvars

\* lines 243-283: build the list, make ~/.pdecrypt/ if missing, write the file
InitCmd ==
    /\ ipc = "init"
    /\ init_pw_list' = BuildPwList(thai_citizen_id, dob)
    /\ ipc' = "exit"
    /\ LET dirLine == IF cfgDir THEN Line("dir_exists", NoText)
                      ELSE Line("creating_dir", NoText)
       IN \/ /\ ~cfgDir                  \* fs::create_dir(..)? failed
             /\ stdout' = Println(stdout, dirLine)
             /\ iret' = "err"
             /\ UNCHANGED <<cfgDir, cfgFile>>
          \/ /\ cfgDir' = TRUE           \* fs::File::create(..)? failed
             /\ stdout' = PrintAll(stdout, <<dirLine, Line("creating_file", NoText)>>)
             /\ iret' = "err"
             /\ UNCHANGED cfgFile
          \/ /\ cfgDir' = TRUE           \* written and synced
             /\ cfgFile' = init_pw_list'
             /\ stdout' = PrintAll(stdout, <<dirLine, Line("creating_file", NoText),
                                             Line("writing_list", NoText),
                                             Line("init_done", NoText)>>)
             /\ iret' = "ok"
    /\ UNCHANGED <<argDob, argId, dob, thai_citizen_id, dobResult, idResult>>
    /\ UNCHANGED <<pc, verbose, pwFile, pw_list, outArg, outExisted, outOnDisk,
                   outCreated, entries, files, idx, opensCur, cand, matched, calls,
                   opened, attempts, written, errors, ret>>

InitNext ==
    \/ ParseDob
    \/ ParseId
    \/ InitCmd

InitSpec == InitInit /\ [][InitNext]_vars

\* ------------------------------------------------------------------ properties: decrypt
Ident(n) == [i \in 1..n |-> i]

\* the lowest index of pw_list whose candidate opens the current file, 0 if none does
LowestOpening ==
    LET ks == {k \in 1..Len(pw_list) : pw_list[k] \in opensCur}
    IN IF ks = {} THEN 0 ELSE CHOOSE k \in ks : \A j \in ks : k <= j

\* C1: for the file being tried, the candidates are passed to the codec in list order
\* from index 0 without a gap; once the lowest opening index k is reached no index
\* above k is ever passed (the only further call re-opens with k itself, line 215),
\* and the password reported as the match is the candidate at k.
C1_FirstMatchInOrder ==
    IF matched = 0
    THEN /\ calls = Ident(Len(calls))
         /\ \A i \in 1..Len(calls) : pw_list[calls[i]] \notin opensCur
    ELSE /\ matched = LowestOpening
         /\ calls \in {Ident(matched), Ident(matched) \o <<matched>>}
         /\ (verbose /\ pc = "write")
               => stdout[Len(stdout)] = Line("password", <<pw_list[LowestOpening]>>)

\* C1 witness: the second of three candidates matched, the third would open the
\* file too and was not tried
C1_Witness ==
    /\ pc = "write"
    /\ Len(pw_list) = 3
    /\ matched = 2
    /\ pw_list[3] \in opensCur
    /\ calls = <<1, 2, 2>>

FileNames == [i \in 1..Len(files) |-> files[i].name]
HasError(name) == \E j \in 1..Len(errors) : errors[j].file = name

\* C2: once per-file processing has started every selected file is attempted exactly
\* once, in order, whatever happened to the files before it; every file the closure
\* is done with is either written under its own name or recorded as a failure, never
\* both; and decrypt returns Ok even when files failed.
C2_EveryFileAttemptedOnce ==
    /\ attempts = SubSeq(FileNames, 1, Len(attempts))
    /\ \A i \in 1..(idx - 1) : (FileNames[i] \in written) # HasError(FileNames[i])
    /\ idx >= 1 => Len(errors) + Cardinality(written) = idx - 1
    /\ written \subseteq Range(FileNames)
    /\ (pc = "exit" /\ attempts # <<>>)
          => /\ ret = "ok"
             /\ attempts = FileNames
             /\ idx = Len(files) + 1

\* C2 witness: three PDFs, the first one failed, the two after it were written
C2_Witness ==
    /\ pc = "exit"
    /\ Len(files) = 3
    /\ Len(errors) = 1
    /\ errors[1].file = files[1].name
    /\ written = {files[2].name, files[3].name}

\* C3 (as claimed): when decrypt has returned, every recorded per-file failure has
\* been printed, with or without the verbose flag.
C3_FailuresReported ==
    (pc = "exit" /\ ret = "ok")
       => \A i \in 1..Len(errors) :
             \E j \in 1..Len(stdout) : stdout[j].k = "error" /\ stdout[j].v = errors[i].file

\* C4 (as claimed): when the output path already exists, explicit or derived, no file
\* is opened or written and decrypt ends with the fatal error.
C4_ExistingOutputDirFatal ==
    outExisted => /\ opened = {}
                  /\ written = {}
                  /\ (pc = "exit" => ret = "err")

\* C5 (as claimed): a missing or unparsable password list and an existing output
\* directory end decrypt with an error, every error return happens before any file
\* is opened or written, and a write is only attempted into an output directory that
\* is there.
C5_FatalBeforeFiles ==
    /\ (pc = "exit" /\ (pwFile # "ok" \/ outExisted)) => ret = "err"
    /\ ret = "err" => (opened = {} /\ written = {} /\ attempts = <<>>)
    /\ pc = "write" => outOnDisk

\* C9 (as claimed): an entry is selected iff it is a regular file whose extension is
\* "pdf" without regard to case.
C9_OnlyRegularPdfFilesSelected ==
    \A i \in 1..Len(entries) :
       (entries[i] \in Range(files))
          <=> (/\ entries[i].kind = "file"
               /\ to_ascii_lowercase(extension(entries[i].name)) = <<"p", "d", "f">>)

\* ------------------------------------------------------------------ properties: init
InitRan == ipc = "exit" /\ idResult = "ok"
Entry(i) == init_pw_list[i + 1]

AsciiDigits == {"0", "1", "2", "3", "4", "5", "6", "7", "8", "9"}
AllDigits(s) == \A i \in 1..Len(s) : s[i] \in AsciiDigits
DigitVal(c) == CHOOSE n \in 0..9 : Digits[n + 1] = c
RECURSIVE Num(_)
Num(s) == IF s = <<>> THEN 0 ELSE 10 * Num(SubSeq(s, 1, Len(s) - 1)) + DigitVal(s[Len(s)])

\* C6: the list built by init has exactly 9 entries, the first is the national id as
\* given, and the list written to the password file is that list.
C6_NineEntriesIdFirst ==
    InitRan => /\ Len(init_pw_list) = 9
               /\ Entry(0) = argId
               /\ iret = "ok" => cfgFile = init_pw_list

\* C6 witness: init ran to the end for 15/01/2000
C6_Witness ==
    /\ InitRan
    /\ iret = "ok"
    /\ dob = [d |-> 15, m |-> 1, y |-> 2000]
    /\ Len(argId) = 13

\* the four renderings starting at entry `first` are, in order, ddmmYYYY, ddmmYY,
\* dd<Mon>YYYY, dd<Mon>YY of a date in year y
IsNumeric(e, w, y) ==
    /\ Len(e) = 4 + w
    /\ AllDigits(e)
    /\ Num(SubSeq(e, 5, 4 + w)) = y
IsAbbr(e, w, y) ==
    /\ Len(e) = 5 + w
    /\ AllDigits(SubSeq(e, 1, 2))
    /\ SubSeq(e, 3, 5) \in Range(MonthAbbr)
    /\ AllDigits(SubSeq(e, 6, 5 + w))
    /\ Num(SubSeq(e, 6, 5 + w)) = y
EraBlock(first, y) ==
    /\ IsNumeric(Entry(first), 4, y)
    /\ IsNumeric(Entry(first + 1), 2, y % 100)
    /\ IsAbbr(Entry(first + 2), 4, y)
    /\ IsAbbr(Entry(first + 3), 2, y % 100)
\* the block starting at `first` renders the day and month of the date as given
GivenDayMonth(first) ==
    /\ \A i \in first..(first + 3) : Num(SubSeq(Entry(i), 1, 2)) = dob.d
    /\ \A i \in first..(first + 1) : Num(SubSeq(Entry(i), 3, 4)) = dob.m
    /\ \A i \in (first + 2)..(first + 3) : SubSeq(Entry(i), 3, 5) = MonthAbbr[dob.m]

\* C7 (amended): entries 1-4 are the four renderings of the date shifted by 543
\* years, entries 5-8 the four renderings of the date as given, each block in the
\* order ddmmYYYY, ddmmYY, dd<Mon>YYYY, dd<Mon>YY.
C7_ShiftedEraFirst ==
    InitRan => /\ EraBlock(1, dob.y + 543)
               /\ EraBlock(5, dob.y)
               /\ GivenDayMonth(5)

\* C7 (as claimed): entries 1-4 render the date as given, entries 5-8 the shifted one
C7_GivenEraFirst ==
    InitRan => /\ EraBlock(1, dob.y)
               /\ GivenDayMonth(1)
               /\ EraBlock(5, dob.y + 543)

\* C7 witness: 27/12/2000 generated; the first date entry is 27122543
C7_Witness ==
    /\ InitRan
    /\ dob = [d |-> 27, m |-> 12, y |-> 2000]
    /\ Entry(1) = <<"2", "7", "1", "2", "2", "5", "4", "3">>
    /\ Entry(5) = <<"2", "7", "1", "2", "2", "0", "0", "0">>

\* C8 (as claimed): the shifted date rendered by init has the year of the date of
\* birth plus 543 and the same day and month.
C8_ShiftKeepsDayMonth ==
    InitRan => Entry(1) = Pad2(dob.d) \o Pad2(dob.m) \o Pad4(dob.y + 543)

\* C10: the id parser accepts its input iff it has exactly 13 characters, all of them
\* ASCII digits, and an accepted id is the input unchanged.
C10_IdAcceptedIffThirteenDigits ==
    idResult # "none"
       => /\ (idResult = "ok") <=> (Len(argId) = 13 /\ AllDigits(argId))
          /\ idResult = "ok" => thai_citizen_id = argId
          /\ idResult = "err" => (iret = "err" /\ init_pw_list = <<>>)

\* C10 witness: a 13-digit id was accepted
C10_Witness ==
    /\ idResult = "ok"
    /\ argId = <<"1", "2", "3", "4", "5", "6", "7", "8", "9", "0", "1", "2", "3">>
    /\ thai_citizen_id = argId

====
